---------------------------- MODULE Spec2Model ----------------------------
(***************************************************************************)
(* Session & transport coordination layer of mcp-nextcloud-calendar.       *)
(*                                                                         *)
(*   - the Express transport handlers (unified /mcp, legacy /sse and       *)
(*     /messages), the transport registry and the keep-alive pinger;       *)
(*   - the SessionStore durable object;                                    *)
(*   - the CalendarCache durable object.                                   *)
(*                                                                         *)
(* The three parts share no state.  Each has its own specification         *)
(* (TransportSpec, SessionSpec, CacheSpec) over the same variables;        *)
(* StoreSpec covers both durable objects.                                  *)
(***************************************************************************)
EXTENDS Integers, Sequences, FiniteSets, TLC

(***************************************************************************)
(* Bounds of the model.                                                    *)
(***************************************************************************)
\* number of response streams (GET requests) in one run
MaxStreams == 2
\* number of identifiers the uuid generator hands out in one run
MaxGen == 1
\* number of times the CalendarCache sees the wall clock advance in one run
MaxAdvances == 2
\* length of a run of the SessionStore, in half hours
MaxHalfHours == 3
\* number of session ids nanoid hands out in one run
MaxSessions == 2
\* number of entries the cache holds at one time
MaxEntries == 2
MaxFailures == 1
MaxInflight == 2

(***************************************************************************)
(* Identifiers.  A session id is either chosen by a client or generated    *)
(* (randomUUID / uuidv4); generated ids are fresh.                         *)
(***************************************************************************)
NoId == <<"none", 0>>
ClientIds == {<<"client", 1>>}
GenId(n) == <<"uuid", n>>
AllIds == ClientIds \cup {GenId(n) : n \in 1..MaxGen}

Streams == 1..MaxStreams
NoStream == 0
NoTimer == 0

\* HTTP methods other than GET, POST and DELETE
OtherMethods == {"PUT", "PATCH"}

\* outcomes of transport.handlePostMessage: did it throw, and had it
\* already written response bytes (res.headersSent) when it returned/threw
HandlerOutcomes ==
    { [threw |-> FALSE, sent |-> TRUE],
      [threw |-> TRUE,  sent |-> FALSE],
      [threw |-> TRUE,  sent |-> TRUE] }

VARIABLES
    transports,       \* part_004:41   session id -> stream of its SSEServerTransport
    keepAliveTimers,  \* part_004:44   session id -> interval timer
    liveTimers,       \* intervals created by setInterval and not yet cleared
    streams,          \* the response objects of the GET requests
    genCount,         \* identifiers generated so far
    last              \* the last completed request / timer callback, as observed

tvars == <<transports, keepAliveTimers, liveTimers, streams, genCount, last>>

VARIABLES
    now,              \* Date.now(), in milliseconds
    advances          \* how often the CalendarCache has seen the clock advance

clockvars == <<now, advances>>

VARIABLES
    sphase,           \* SessionStore instance: "evicted", "loading" or "ready"
    sessions,         \* session-store.ts:21   this.sessions
    sstored,          \* the value persisted under the key 'sessions'
    sheld,            \* a request is held by blockConcurrencyWhile
    idCount,          \* ids nanoid() has returned
    access,           \* per id, when a caller last created, read or updated it
    sresp             \* the last response of the SessionStore

svars == <<sphase, sessions, sstored, sheld, idCount, access, sresp>>

VARIABLES
    cphase,           \* CalendarCache instance: "evicted", "loading" or "ready"
    cache,            \* session-store.ts:237  this.cache
    cstored,          \* the value persisted under the key 'cache'
    cheld,            \* a request is held by blockConcurrencyWhile
    cresp             \* the last response of the CalendarCache

cvars == <<cphase, cache, cstored, cheld, cresp>>

\* the component a run exercises: the three share no state, so every
\* behaviour of the whole is an interleaving of one behaviour of each
VARIABLE focus

VARIABLES
    failures,         \* steps taken while the storage rejected writes
    inflight,         \* update requests delivered whose body is still being read
    serial            \* the map had every request run to its end on delivery

envvars == <<failures, inflight, serial>>

\* a transport step that also empties the SessionStore
TOnlyDropsSessions ==
    /\ sessions' = << >>
    /\ sstored' = [sstored EXCEPT !.map = << >>]
    /\ UNCHANGED <<clockvars, sphase, sheld, idCount, access, sresp, cvars, focus,
                   envvars>>

\* what the steps of one component leave alone
TOnly == UNCHANGED <<clockvars, svars, cvars, focus, envvars>>
SOnly == UNCHANGED <<tvars, cvars, focus, envvars>>
COnly == UNCHANGED <<tvars, svars, focus, envvars>>

\* the same for a step whose storage write is accepted (ok) or rejected
Rejects(ok) ==
    IF ok THEN UNCHANGED failures
    ELSE failures < MaxFailures /\ failures' = failures + 1
SFail(ok) == UNCHANGED <<tvars, cvars, focus, inflight, serial>> /\ Rejects(ok)
CFail(ok) == UNCHANGED <<tvars, svars, focus, inflight, serial>> /\ Rejects(ok)

(***************************************************************************)
(* The registry as one value, so that the helper functions of part_004     *)
(* are operators from registry to registry.  A timer is named by the       *)
(* stream whose GET started it: its callback closes over (sessionId, res). *)
(***************************************************************************)
Reg == [transports |-> transports,
        keepAliveTimers |-> keepAliveTimers,
        liveTimers |-> liveTimers]

\* part_004:100-106
StopKeepAlivePinger(r, sessionId) ==
    IF r.keepAliveTimers[sessionId] # NoTimer
    THEN [r EXCEPT !.liveTimers = @ \ {r.keepAliveTimers[sessionId]},
                   !.keepAliveTimers[sessionId] = NoTimer]
    ELSE r

\* a start that leaves a timer already running for the id alone
StartKeepAlivePingerNoClear(r, sessionId, res) ==
    [r EXCEPT !.liveTimers = @ \cup {res},
              !.keepAliveTimers[sessionId] = res]

\* part_004:69-94 (the callback is TickCallback)
StartKeepAlivePinger(r, sessionId, res) ==
    LET cleared == IF r.keepAliveTimers[sessionId] # NoTimer
                   THEN r.liveTimers \ {r.keepAliveTimers[sessionId]}
                   ELSE r.liveTimers
    IN [r EXCEPT !.liveTimers = cleared \cup {res},
                 !.keepAliveTimers[sessionId] = res]

\* a teardown that removes the binding on one call and stops the timer only
\* on a call that finds no binding
CleanupSessionInTwoSteps(r, sessionId) ==
    IF r.transports[sessionId] # NoStream
    THEN [r EXCEPT !.transports[sessionId] = NoStream]
    ELSE StopKeepAlivePinger(r, sessionId)

\* part_004:112-125
CleanupSession(r, sessionId) ==
    LET r1 == StopKeepAlivePinger(r, sessionId)
    IN IF r1.transports[sessionId] # NoStream
       THEN [r1 EXCEPT !.transports[sessionId] = NoStream]
       ELSE r1

\* part_004:77-89  the interval callback of the timer started for (sessionId, res)
TickCallback(r, sessionId, writeOk) ==
    IF r.transports[sessionId] # NoStream
    THEN IF writeOk
         THEN r                                   \* res.write(ping)
         ELSE StopKeepAlivePinger(r, sessionId)   \* catch
    ELSE StopKeepAlivePinger(r, sessionId)

SetReg(r) ==
    /\ transports' = r.transports
    /\ keepAliveTimers' = r.keepAliveTimers
    /\ liveTimers' = r.liveTimers

(***************************************************************************)
(* Streams.  pc is the position of the GET handler that owns the stream:   *)
(*   "unused"      no GET has created it                                   *)
(*   "connecting"  suspended at `await server.connect(transport)`          *)
(*   "streaming"   connect resolved, pinger started, handler returned      *)
(*   "failed"      connect rejected, catch block ended the response        *)
(***************************************************************************)
UnusedStream == [pc |-> "unused", sid |-> NoId, endpoint |-> "none",
                 reqHdr |-> NoId, respHdr |-> NoId, closed |-> FALSE]

Used(s) == streams[s].pc # "unused"

\* the response object the next GET receives
NextStream == CHOOSE s \in Streams : ~Used(s) /\ \A u \in Streams : u < s => Used(u)

\* the session-id values a request can carry
Headers == {NoId} \cup ClientIds \cup {GenId(n) : n \in 1..genCount}

\* /sse never reads the header: one supplied value stands for all of them
SseHeaders == {NoId} \cup ClientIds

NoneYet == [op |-> "none", status |-> 0, hdr |-> NoId, note |-> "none",
            responses |-> 0]

(***************************************************************************)
(* A response object that has closed, whose handler has returned and that  *)
(* neither the registry nor a timer refers to can take no further step:    *)
(* its slot is given to a later GET.  MaxStreams therefore bounds the      *)
(* responses alive at one time, not the GETs of a run.                     *)
(***************************************************************************)
Dead(st, r, s) ==
    /\ st[s].closed
    /\ st[s].pc \in {"streaming", "failed"}
    /\ s \notin r.liveTimers
    /\ \A x \in AllIds : r.transports[x] # s /\ r.keepAliveTimers[x] # s

Reap(st, r) == [s \in Streams |-> IF Dead(st, r, s) THEN UnusedStream ELSE st[s]]

\* part_004:164  the id under which the unified GET registers the transport
McpGetSessionId(hdr, generated) == IF hdr # NoId THEN hdr ELSE generated

\* a unified GET that sets the response header unconditionally
McpGetRespHdrAlways(hdr, sessionId) == sessionId

\* part_004:174-177  the Mcp-Session-Id response header of the unified GET
McpGetRespHdr(hdr, sessionId) == IF hdr = NoId THEN sessionId ELSE NoId

\* part_004:274  the legacy GET always uses the transport's own id
SseGetSessionId(hdr, generated) == generated

\* part_004:263-299  the legacy GET sets no Mcp-Session-Id header
SseGetRespHdr(hdr, sessionId) == NoId

\* a registration that keeps an entry already present under the id
RegisterKeepOld(r, sessionId, res) ==
    IF r.transports[sessionId] # NoStream THEN r
    ELSE [r EXCEPT !.transports[sessionId] = res]

\* part_004:168 / 278   transports[sessionId] = transport
Register(r, sessionId, res) == [r EXCEPT !.transports[sessionId] = res]

\* part_004:151-186  GET /mcp up to the await of server.connect
GetMcp(hdr) ==
    /\ \E s \in Streams : ~Used(s)
    /\ hdr = NoId => genCount < MaxGen
    /\ LET s == NextStream
           sessionId == McpGetSessionId(hdr, GenId(genCount + 1))
       IN /\ SetReg(Register(Reg, sessionId, s))
          /\ streams' = [streams EXCEPT ![s] =
                 [pc |-> "connecting", sid |-> sessionId, endpoint |-> "mcp",
                  reqHdr |-> hdr, respHdr |-> McpGetRespHdr(hdr, sessionId),
                  closed |-> FALSE]]
          /\ genCount' = IF hdr = NoId THEN genCount + 1 ELSE genCount
    /\ UNCHANGED last

\* part_004:263-290  GET /sse up to the await of server.connect
GetSse(hdr) ==
    /\ \E s \in Streams : ~Used(s)
    /\ genCount < MaxGen
    /\ LET s == NextStream
           sessionId == SseGetSessionId(hdr, GenId(genCount + 1))
       IN /\ SetReg(Register(Reg, sessionId, s))
          /\ streams' = [streams EXCEPT ![s] =
                 [pc |-> "connecting", sid |-> sessionId, endpoint |-> "sse",
                  reqHdr |-> hdr, respHdr |-> SseGetRespHdr(hdr, sessionId),
                  closed |-> FALSE]]
          /\ genCount' = genCount + 1
    /\ UNCHANGED last

\* part_004:186-190 / 290-294  server.connect resolved: start the pinger
ConnectOk(s) ==
    /\ streams[s].pc = "connecting"
    /\ LET r == StartKeepAlivePinger(Reg, streams[s].sid, s)
       IN /\ SetReg(r)
          /\ streams' = Reap([streams EXCEPT ![s].pc = "streaming"], r)
    /\ UNCHANGED <<genCount, last>>

\* a catch block that starts the keep-alive timer although connect was rejected
ConnectFailStartsPinger(s) ==
    /\ streams[s].pc = "connecting"
    /\ LET r == StartKeepAlivePinger(Reg, streams[s].sid, s)
       IN /\ SetReg(r)
          /\ streams' = Reap([streams EXCEPT ![s].pc = "failed"], r)
    /\ UNCHANGED <<genCount, last>>

\* part_004:191-198 / 295-298  server.connect rejected: the response is ended
ConnectFail(s) ==
    /\ streams[s].pc = "connecting"
    /\ streams' = Reap([streams EXCEPT ![s].pc = "failed"], Reg)
    /\ UNCHANGED <<transports, keepAliveTimers, liveTimers, genCount, last>>

\* part_004:180-183 / 284-287  the 'close' event of the response
Close(s) ==
    /\ Used(s)
    /\ ~streams[s].closed
    /\ LET r == CleanupSession(Reg, streams[s].sid)
       IN /\ SetReg(r)
          /\ streams' = Reap([streams EXCEPT ![s].closed = TRUE], r)
    /\ UNCHANGED <<genCount, last>>

\* part_004:77-89  one firing of the interval timer t
Tick(t, writeOk) ==
    /\ t \in liveTimers
    /\ LET sessionId == streams[t].sid
           bound == transports[sessionId] # NoStream
           r == TickCallback(Reg, sessionId, writeOk)
       IN /\ SetReg(r)
          /\ streams' = Reap(streams, r)
          /\ last' = [op |-> "tick", status |-> 0, hdr |-> NoId,
                      note |-> IF bound THEN (IF writeOk THEN "ping" ELSE "writeError")
                               ELSE "selfStop",
                      responses |-> 0]
    /\ UNCHANGED genCount


\* part_004:139-148  DELETE /mcp: status
McpDeleteStatus(r, hdr) ==
    IF hdr # NoId /\ r.transports[hdr] # NoStream THEN 202 ELSE 404

\* a DELETE that removes the registry entry and leaves the timer running
McpDeleteRegKeepTimer(r, hdr) ==
    IF hdr # NoId /\ r.transports[hdr] # NoStream
    THEN [r EXCEPT !.transports[hdr] = NoStream] ELSE r

\* part_004:139-148  DELETE /mcp: effect on the registry
McpDeleteReg(r, hdr) ==
    IF hdr # NoId /\ r.transports[hdr] # NoStream THEN CleanupSession(r, hdr) ELSE r

DeleteMcp(hdr) ==
    /\ LET r == McpDeleteReg(Reg, hdr)
       IN /\ SetReg(r)
          /\ streams' = Reap(streams, r)
    /\ last' = [op |-> "DELETE /mcp", status |-> McpDeleteStatus(Reg, hdr),
                hdr |-> NoId, note |-> "none", responses |-> 1]
    /\ UNCHANGED genCount

(***************************************************************************)
(* POST.  A response is [status, hdr, note, responses]: status 0 stands    *)
(* for "whatever transport.handlePostMessage wrote"; responses counts the  *)
(* responses written for the request (by the transport and by the          *)
(* handler's own catch block).                                             *)
(***************************************************************************)
\* a catch block that answers 500 without looking at res.headersSent
ForwardNoHeadersSentCheck(out) ==
    IF out.threw
    THEN [status |-> 500, hdr |-> NoId, note |-> "handlerError",
          responses |-> IF out.sent THEN 2 ELSE 1]
    ELSE [status |-> 0, hdr |-> NoId, note |-> "forwarded",
          responses |-> IF out.sent THEN 1 ELSE 0]

\* part_004:209-226 / 323-338  forward to the bound transport, catch its failure
ForwardToTransport(out) ==
    IF out.threw
    THEN IF ~out.sent
         THEN [status |-> 500, hdr |-> NoId, note |-> "handlerError", responses |-> 1]
         ELSE [status |-> 0, hdr |-> NoId, note |-> "handlerError", responses |-> 1]
    ELSE [status |-> 0, hdr |-> NoId, note |-> "forwarded",
          responses |-> IF out.sent THEN 1 ELSE 0]

\* a unified POST that answers a supplied id without a binding with 404
\* (the branch at part_004:248-254, which the code never reaches)
McpPostResponseNotFound(r, hdr, out, freshId) ==
    IF hdr # NoId /\ r.transports[hdr] # NoStream
    THEN ForwardToTransport(out)
    ELSE IF hdr = NoId
         THEN [status |-> 202, hdr |-> freshId, note |-> "init", responses |-> 1]
         ELSE [status |-> 404, hdr |-> NoId, note |-> "unknown", responses |-> 1]

\* part_004:203-255  POST /mcp: response
McpPostResponse(r, hdr, out, freshId) ==
    IF hdr # NoId /\ r.transports[hdr] # NoStream
    THEN ForwardToTransport(out)
    ELSE [status |-> 202, hdr |-> IF hdr # NoId THEN hdr ELSE freshId,
          note |-> "init", responses |-> 1]

\* part_004:203-255  POST /mcp: effect on the registry (none is written)
McpPostReg(r, hdr, out) == r

\* part_004:302-339  POST /messages?sessionId=: response
MessagePostResponse(r, query, out) ==
    IF query = NoId
    THEN [status |-> 400, hdr |-> NoId, note |-> "missing", responses |-> 1]
    ELSE IF r.transports[query] = NoStream
         THEN [status |-> 404, hdr |-> NoId, note |-> "unknown", responses |-> 1]
         ELSE ForwardToTransport(out)

\* a legacy POST that tears the session down when its transport fails
MessagePostRegCleanup(r, query, out) ==
    IF query # NoId /\ r.transports[query] # NoStream /\ out.threw
    THEN CleanupSession(r, query) ELSE r

\* part_004:302-339  POST /messages: effect on the registry (none is written)
MessagePostReg(r, query, out) == r

Bound(id) == id # NoId /\ transports[id] # NoStream

\* transport.handlePostMessage runs, and has an outcome, only for a bound id
NotCalled == [threw |-> FALSE, sent |-> FALSE]
OutcomesFor(id) == IF Bound(id) THEN HandlerOutcomes ELSE {NotCalled}

PostMcp(hdr, out) ==
    /\ (hdr = NoId) => genCount < MaxGen
    /\ SetReg(McpPostReg(Reg, hdr, out))
    /\ LET resp == McpPostResponse(Reg, hdr, out, GenId(genCount + 1))
       IN last' = [op |-> "POST /mcp", status |-> resp.status, hdr |-> resp.hdr,
                   note |-> resp.note, responses |-> resp.responses]
    /\ genCount' = IF hdr = NoId THEN genCount + 1 ELSE genCount
    /\ UNCHANGED streams

PostMessages(query, out) ==
    /\ SetReg(MessagePostReg(Reg, query, out))
    /\ LET resp == MessagePostResponse(Reg, query, out)
       IN last' = [op |-> "POST /messages", status |-> resp.status, hdr |-> resp.hdr,
                   note |-> resp.note, responses |-> resp.responses]
    /\ UNCHANGED <<streams, genCount>>

\* an unknown verb answered as an unknown resource
McpOtherStatusNotFound(m) == 404

\* part_004:257-259  the status for any other verb on /mcp
McpOtherStatus(m) == 405

\* part_004:257-259  any other verb on /mcp
OtherVerb(m) ==
    /\ last' = [op |-> m, status |-> McpOtherStatus(m), hdr |-> NoId, note |-> "none",
                responses |-> 1]
    /\ UNCHANGED <<transports, keepAliveTimers, liveTimers, streams, genCount>>


(***************************************************************************)
(* The wall clock.  Times are milliseconds, as Date.now() returns them;    *)
(* the clock is observed to advance in steps that land on the ages the     *)
(* TTL comparisons distinguish (below, at and above a TTL).                *)
(***************************************************************************)
Minute == 60 * 1000
SessionSteps == {30 * Minute, 60 * Minute}
CacheSteps == {5 * Minute, 24 * 60 * Minute}

ClockInit == now = 0 /\ advances = 0

Advance(step) == now' = now + step

(***************************************************************************)
(* Durable-object storage.  A map is a function whose domain is its key    *)
(* set; storage.get of a key never written is undefined (present = FALSE). *)
(* put(key, map) stores a structured clone of the map as it is at the call.*)
(***************************************************************************)
EmptyMap == [x \in {} |-> 0]
NothingStored == [present |-> FALSE, map |-> EmptyMap]

\* a set that overwrites every value of the map
MapSetAll(m, k, v) == [x \in DOMAIN m \cup {k} |-> v]

MapSet(m, k, v) == [x \in DOMAIN m \cup {k} |-> IF x = k THEN v ELSE m[x]]
MapDeleteNothing(m, k) == m

MapDelete(m, k) == [x \in DOMAIN m \ {k} |-> m[x]]

\* a put that never reaches the storage
StoragePutDropped(stored, map, ok) == stored

\* storage.put('sessions' | 'cache', map); ok = the write succeeds
StoragePut(stored, map, ok) ==
    IF ok THEN [present |-> TRUE, map |-> map] ELSE stored

(***************************************************************************)
(* SessionStore (session-store.ts:19-219).                                 *)
(***************************************************************************)
\* session-store.ts:24
SESSION_TTL == 60 * 60 * 1000

\* an id generator that hands out the same id every time
NanoIdFixed(n) == <<"nanoid", 1>>

\* session-store.ts:79  nanoid(): the n-th id of a run, different from the
\* ids handed out before
NanoId(n) == <<"nanoid", n>>
SessionIds == {NanoId(n) : n \in 1..MaxSessions}
\* an id no session was ever created under
UnknownSession == <<"nanoid", 0>>
NoUser == "undefined"
Never == 0 - 1

\* request bodies of POST /create: {userId?, data?}
CreateBodies == { [userId |-> "alice", hasData |-> FALSE, data |-> EmptyMap],
                  [userId |-> NoUser, hasData |-> TRUE,
                   data |-> ("k1" :> "v1" @@ "k2" :> "v1")] }
\* the data of POST /update
UpdateData == { ("k2" :> "v2") }

\* the id parameter of /get, /delete and the sessionId of /update
SessionParams == {NoId, UnknownSession} \cup {NanoId(n) : n \in 1..idCount}

\* an update that replaces the data instead of merging into it
ShallowReplace(old, new) == new

\* session-store.ts:160  { ...session.data, ...data }
ShallowMerge(old, new) ==
    [k \in DOMAIN old \cup DOMAIN new |-> IF k \in DOMAIN new THEN new[k] ELSE old[k]]

\* a create that stamps createdAt and leaves updatedAt at zero
NewSessionUnstamped(sessionId, body, t) ==
    [id |-> sessionId, createdAt |-> t, updatedAt |-> 0, userId |-> body.userId,
     data |-> IF body.hasData THEN body.data ELSE EmptyMap]

\* session-store.ts:82-88
NewSession(sessionId, body, t) ==
    [id |-> sessionId, createdAt |-> t, updatedAt |-> t, userId |-> body.userId,
     data |-> IF body.hasData THEN body.data ELSE EmptyMap]

\* a read that leaves updatedAt as it was
TouchNot(session, t) == session

\* session-store.ts:127  session.updatedAt = Date.now()
Touch(session, t) == [session EXCEPT !.updatedAt = t]

\* session-store.ts:209
SessionExpired(session, t) == t - session.updatedAt > SESSION_TTL

\* session-store.ts:204-213  the map after the sweep
CleanExpiredSessions(m, t) ==
    [id \in {x \in DOMAIN m : ~SessionExpired(m[x], t)} |-> m[id]]

\* requests are served while the constructor's load still runs
ServingWhileLoading(phase) == phase \in {"loading", "ready"}

\* session-store.ts:34-43 / 253-259  blockConcurrencyWhile: no request is
\* delivered before the load callback has finished
Serving(phase) == phase = "ready"

\* a response; body is the record a 200 response carries, if any
NoBody == [id |-> NoId]
SNone == [op |-> "none", id |-> NoId, status |-> 0, body |-> NoBody,
          cold |-> FALSE, unhandled |-> FALSE]

SessionInit ==
    /\ sphase = "evicted"
    /\ sessions = EmptyMap
    /\ sstored = NothingStored
    /\ sheld = FALSE
    /\ idCount = 0
    /\ access = [id \in SessionIds |-> Never]
    /\ sresp = SNone

\* the instance is discarded while idle; its memory is lost
SessionEvict ==
    /\ focus = "session"
    /\ sphase = "ready" /\ ~sheld
    /\ sphase' = "evicted"
    /\ sessions' = EmptyMap
    /\ UNCHANGED <<sstored, sheld, idCount, access, sresp, clockvars>>

\* session-store.ts:29-34  a request reaches an instance not in memory:
\* the constructor runs up to the load, the request is held
SessionColdStart ==
    /\ focus = "session"
    /\ sphase = "evicted"
    /\ sphase' = "loading"
    /\ sessions' = EmptyMap
    /\ sheld' = TRUE
    /\ UNCHANGED <<sstored, idCount, access, sresp, clockvars>>

\* session-store.ts:36-42  the load callback: storage.get, then the sweep
\* (which persists only when it removed something, un-awaited)
SessionLoadDone(ok) ==
    /\ focus = "session"
    /\ sphase = "loading"
    /\ sphase' = "ready"
    /\ IF sstored.present
       THEN LET swept == CleanExpiredSessions(sstored.map, now)
            IN /\ sessions' = swept
               /\ sstored' = IF swept # sstored.map
                             THEN StoragePut(sstored, swept, ok) ELSE sstored
               /\ sresp' = IF swept # sstored.map /\ ~ok
                           THEN [SNone EXCEPT !.op = "load", !.unhandled = TRUE]
                           ELSE sresp
       ELSE UNCHANGED <<sessions, sstored, sresp>>
    /\ UNCHANGED <<sheld, idCount, access, clockvars>>

SReply(op, id, status, body, unhandled) ==
    /\ sresp' = [op |-> op, id |-> id, status |-> status, body |-> body,
                 cold |-> sheld, unhandled |-> unhandled]
    /\ sheld' = FALSE

\* session-store.ts:75-102  POST /create
HandleCreateSession(body, ok) ==
    /\ focus = "session"
    /\ Serving(sphase)
    /\ idCount < MaxSessions
    /\ LET sessionId == NanoId(idCount + 1)
           session == NewSession(sessionId, body, now)
       IN /\ sessions' = MapSet(sessions, sessionId, session)
          /\ sstored' = StoragePut(sstored, sessions', ok)
          /\ idCount' = idCount + 1
          /\ access' = IF ok THEN [access EXCEPT ![sessionId] = now] ELSE access
          /\ SReply("create", NoId, IF ok THEN 200 ELSE 500,
                    IF ok THEN session ELSE NoBody, FALSE)
    /\ UNCHANGED <<sphase, clockvars>>

\* session-store.ts:96-101  POST /create with a body that is not JSON
HandleCreateBadBody ==
    /\ focus = "session"
    /\ Serving(sphase)
    /\ SReply("create", NoId, 500, NoBody, FALSE)
    /\ UNCHANGED <<sphase, sessions, sstored, idCount, access, clockvars>>

\* session-store.ts:107-134  GET /get?id=  (the put is not awaited)
HandleGetSession(id, ok) ==
    /\ focus = "session"
    /\ Serving(sphase)
    /\ IF id = NoId
       THEN /\ SReply("get", id, 400, NoBody, FALSE)
            /\ UNCHANGED <<sessions, sstored, access>>
       ELSE IF id \notin DOMAIN sessions
       THEN /\ SReply("get", id, 404, NoBody, FALSE)
            /\ UNCHANGED <<sessions, sstored, access>>
       ELSE /\ sessions' = MapSet(sessions, id, Touch(sessions[id], now))
            /\ sstored' = StoragePut(sstored, sessions', ok)
            /\ access' = [access EXCEPT ![id] = now]
            /\ SReply("get", id, 200, sessions'[id], ~ok)
    /\ UNCHANGED <<sphase, idCount, clockvars>>

\* session-store.ts:139-175  POST /update {sessionId, data}
HandleUpdateSession(id, data, ok) ==
    /\ focus = "session"
    /\ Serving(sphase)
    /\ IF id = NoId
       THEN /\ SReply("update", id, 400, NoBody, FALSE)
            /\ UNCHANGED <<sessions, sstored, access>>
       ELSE IF id \notin DOMAIN sessions
       THEN /\ SReply("update", id, 404, NoBody, FALSE)
            /\ UNCHANGED <<sessions, sstored, access>>
       ELSE /\ sessions' = MapSet(sessions, id,
                              [sessions[id] EXCEPT !.data = ShallowMerge(@, data),
                                                   !.updatedAt = now])
            /\ sstored' = StoragePut(sstored, sessions', ok)
            /\ access' = IF ok THEN [access EXCEPT ![id] = now] ELSE access
            /\ SReply("update", id, IF ok THEN 200 ELSE 500,
                      IF ok THEN sessions'[id] ELSE NoBody, FALSE)
    /\ UNCHANGED <<sphase, idCount, clockvars>>

\* session-store.ts:191  what Map.delete answers: whether the key was there
MapHadNothing(m, k) == FALSE

MapHad(m, k) == k \in DOMAIN m

\* session-store.ts:180-199  DELETE /delete?id=
\* (the put is awaited outside any try: a failed write escapes, status 0)
HandleDeleteSession(id, ok) ==
    /\ focus = "session"
    /\ Serving(sphase)
    /\ IF id = NoId
       THEN /\ SReply("delete", id, 400, NoBody, FALSE)
            /\ UNCHANGED <<sessions, sstored, access>>
       ELSE LET deleted == MapHad(sessions, id)
            IN /\ sessions' = MapDelete(sessions, id)
               /\ sstored' = IF deleted THEN StoragePut(sstored, sessions', ok)
                                        ELSE sstored
               /\ access' = IF deleted
                             THEN [access EXCEPT ![id] = Never] ELSE access
               /\ SReply("delete", id, IF deleted /\ ~ok THEN 0 ELSE 200,
                         IF deleted /\ ~ok THEN NoBody
                                           ELSE [success |-> deleted], FALSE)
    /\ UNCHANGED <<sphase, idCount, clockvars>>

\* time passes for the SessionStore
SessionAdvance(step) ==
    /\ focus = "session"
    /\ now + step <= MaxHalfHours * 30 * Minute
    /\ Advance(step)
    /\ UNCHANGED <<advances, svars>>

\* the SessionStore with a storage whose writes succeed
SessionNext ==
    \/ \E body \in CreateBodies : HandleCreateSession(body, TRUE) /\ SOnly
    \/ HandleCreateBadBody /\ SOnly
    \/ \E id \in SessionParams : HandleGetSession(id, TRUE) /\ SOnly
    \/ \E id \in SessionParams, data \in UpdateData :
           HandleUpdateSession(id, data, TRUE) /\ SOnly
    \/ \E id \in SessionParams : HandleDeleteSession(id, TRUE) /\ SOnly
    \/ SessionColdStart /\ SOnly
    \/ SessionLoadDone(TRUE) /\ SOnly
    \/ SessionEvict /\ SOnly
    \/ \E step \in SessionSteps : SessionAdvance(step) /\ SOnly


(***************************************************************************)
(* CalendarCache (session-store.ts:235-405).  Cache keys are strings built *)
(* by concatenation and searched by substring, so strings are sequences of *)
(* characters.                                                             *)
(***************************************************************************)
\* session-store.ts:240
DEFAULT_TTL == 5 * 60 * 1000
\* session-store.ts:243
PREFERENCES_TTL == 24 * 60 * 60 * 1000

StrCalendars == <<"c", "a", "l", "e", "n", "d", "a", "r", "s">>
StrEvents == <<"e", "v", "e", "n", "t", "s">>
StrPreferences == <<"p", "r", "e", "f", "e", "r", "e", "n", "c", "e", "s">>
StrDefault == <<"d", "e", "f", "a", "u", "l", "t">>
Colon == <<":">>
Bob == <<"b", "o", "b">>
Bobby == <<"b", "o", "b", "b", "y">>

\* the userId query parameter; the empty string stands for a missing one
NoParam == <<>>
UserParams == {NoParam, Bob, Bobby}
CacheData == {"d1", "d2"}
NoCacheData == "undefined"

\* String.prototype.includes
Includes(s, sub) ==
    \E i \in 0..(Len(s) - Len(sub)) : SubSeq(s, i + 1, i + Len(sub)) = sub

\* String.prototype.startsWith
StartsWith(s, prefix) ==
    Len(prefix) <= Len(s) /\ SubSeq(s, 1, Len(prefix)) = prefix

\* session-store.ts:268  url.searchParams.get('userId') || 'default'
UserIdOf(param) == IF param = NoParam THEN StrDefault ELSE param

\* session-store.ts:274-298  the key the router builds for a route
RouteKey(category, userId, calendarId) ==
    CASE category = "calendars" -> StrCalendars \o Colon \o userId
      [] category = "events" -> StrEvents \o Colon \o userId \o Colon \o calendarId
      [] category = "preferences" -> StrPreferences \o Colon \o userId

\* session-store.ts:274-298  the ttl the router passes for a route
RouteTtl(category) ==
    IF category = "preferences" THEN PREFERENCES_TTL ELSE DEFAULT_TTL

\* the requests of the cache routes: a category, the userId parameter and,
\* for events, the calendar id
Routes ==
    { [category |-> "calendars", user |-> Bob, calendar |-> NoParam],
      [category |-> "calendars", user |-> Bobby, calendar |-> NoParam],
      [category |-> "events", user |-> NoParam, calendar |-> Bob],
      [category |-> "preferences", user |-> Bob, calendar |-> NoParam] }

KeyOf(route) == RouteKey(route.category, UserIdOf(route.user), route.calendar)

\* an entry counts as fresh up to and including its ttl
FreshAtTtl(entry, ttl, t) == t - entry.timestamp <= ttl

\* session-store.ts:317
Fresh(entry, ttl, t) == t - entry.timestamp < ttl

\* session-store.ts:314-334  the response of handleGet
HandleGet(c, cacheKey, ttl, t) ==
    IF cacheKey \in DOMAIN c /\ Fresh(c[cacheKey], ttl, t)
    THEN [status |-> 200, xcache |-> "HIT", data |-> c[cacheKey].data,
          age |-> t - c[cacheKey].timestamp]
    ELSE [status |-> 404, xcache |-> "MISS", data |-> NoCacheData, age |-> 0]

\* a put that keeps the timestamp of the entry it replaces
HandlePutCacheKeepStamp(c, cacheKey, data, t) ==
    MapSet(c, cacheKey,
           [data |-> data,
            timestamp |-> IF cacheKey \in DOMAIN c THEN c[cacheKey].timestamp ELSE t])

\* session-store.ts:343-346  this.cache.set(cacheKey, {data, timestamp})
HandlePutCache(c, cacheKey, data, t) ==
    MapSet(c, cacheKey, [data |-> data, timestamp |-> t])

\* session-store.ts:367  the keys handleClearCache selects for a user
UserKeys(c, userId) == {key \in DOMAIN c : Includes(key, Colon \o userId)}

\* one ttl for every category
TtlToUseDefault(key) == DEFAULT_TTL

\* session-store.ts:393
TtlToUse(key) ==
    IF StartsWith(key, StrPreferences \o Colon) THEN PREFERENCES_TTL ELSE DEFAULT_TTL

\* session-store.ts:395
EntryExpired(key, entry, t) == t - entry.timestamp > TtlToUse(key)

\* session-store.ts:388-399  the map after the sweep
CleanExpiredEntries(c, t) ==
    [key \in {k \in DOMAIN c : ~EntryExpired(k, c[k], t)} |-> c[key]]

\* a response, with the key a GET asked for
CNone == [op |-> "none", key |-> NoParam, status |-> 0, xcache |-> "none",
          data |-> NoCacheData, cleared |-> 0, cold |-> FALSE,
          unhandled |-> FALSE]

CacheInit ==
    /\ focus \in {"transport", "session", "cache"}
    /\ cphase = "evicted"
    /\ cache = EmptyMap
    /\ cstored = NothingStored
    /\ cheld = FALSE
    /\ cresp = CNone

\* the instance is discarded while idle; its memory is lost
CacheEvict ==
    /\ focus = "cache"
    /\ cphase = "ready" /\ ~cheld
    /\ cphase' = "evicted"
    /\ cache' = EmptyMap
    /\ UNCHANGED <<cstored, cheld, cresp, clockvars>>

\* session-store.ts:248-253  a request reaches an instance not in memory
CacheColdStart ==
    /\ focus = "cache"
    /\ cphase = "evicted"
    /\ cphase' = "loading"
    /\ cache' = EmptyMap
    /\ cheld' = TRUE
    /\ UNCHANGED <<cstored, cresp, clockvars>>

\* session-store.ts:254-258  the load callback: storage.get, then the sweep
CacheLoadDone(ok) ==
    /\ focus = "cache"
    /\ cphase = "loading"
    /\ cphase' = "ready"
    /\ IF cstored.present
       THEN LET swept == CleanExpiredEntries(cstored.map, now)
            IN /\ cache' = swept
               /\ cstored' = IF swept # cstored.map
                             THEN StoragePut(cstored, swept, ok) ELSE cstored
               /\ cresp' = IF swept # cstored.map /\ ~ok
                           THEN [CNone EXCEPT !.op = "load", !.unhandled = TRUE]
                           ELSE cresp
       ELSE UNCHANGED <<cache, cstored, cresp>>
    /\ UNCHANGED <<cheld, clockvars>>

CReply(op, key, status, xcache, data, cleared) ==
    /\ cresp' = [op |-> op, key |-> key, status |-> status, xcache |-> xcache,
                 data |-> data, cleared |-> cleared, cold |-> cheld,
                 unhandled |-> FALSE]
    /\ cheld' = FALSE

\* session-store.ts:273-275, 282-285, 293-295  GET of a cache route
CacheGet(route) ==
    /\ focus = "cache"
    /\ Serving(cphase)
    /\ LET r == HandleGet(cache, KeyOf(route), RouteTtl(route.category), now)
       IN CReply("get", KeyOf(route), r.status, r.xcache, r.data, 0)
    /\ UNCHANGED <<cphase, cache, cstored, clockvars>>

\* session-store.ts:277-279, 287-290, 297-299, 339-360  PUT of a cache route
CachePut(route, data, ok) ==
    /\ focus = "cache"
    /\ Serving(cphase)
    /\ KeyOf(route) \in DOMAIN cache \/ Cardinality(DOMAIN cache) < MaxEntries
    /\ cache' = HandlePutCache(cache, KeyOf(route), data, now)
    /\ cstored' = StoragePut(cstored, cache', ok)
    /\ CReply("put", NoParam, IF ok THEN 200 ELSE 500, "none", NoCacheData, 0)
    /\ UNCHANGED <<cphase, clockvars>>

\* session-store.ts:341, 354-358  PUT with a body that is not JSON
CachePutBadBody(route) ==
    /\ focus = "cache"
    /\ Serving(cphase)
    /\ CReply("put", NoParam, 500, "none", NoCacheData, 0)
    /\ UNCHANGED <<cphase, cache, cstored, clockvars>>

\* session-store.ts:302-304, 365-383  DELETE /clear?userId=
\* (the put is awaited outside any try: a failed write escapes, status 0)
CacheClear(param, ok) ==
    /\ focus = "cache"
    /\ Serving(cphase)
    /\ LET userKeys == UserKeys(cache, UserIdOf(param))
       IN /\ cache' = [key \in DOMAIN cache \ userKeys |-> cache[key]]
          /\ cstored' = StoragePut(cstored, cache', ok)
          /\ CReply("clear", NoParam, IF ok THEN 200 ELSE 0, "none", NoCacheData,
                    IF ok THEN Cardinality(userKeys) ELSE 0)
    /\ UNCHANGED <<cphase, clockvars>>

\* time passes for the CalendarCache
CacheAdvance(step) ==
    /\ focus = "cache"
    /\ advances < MaxAdvances
    /\ Advance(step)
    /\ advances' = advances + 1
    /\ UNCHANGED cvars

\* the CalendarCache with a storage whose writes succeed
CacheNext ==
    \/ \E route \in Routes : CacheGet(route) /\ COnly
    \/ \E route \in Routes, data \in CacheData : CachePut(route, data, TRUE) /\ COnly
    \/ \E route \in Routes : CachePutBadBody(route) /\ COnly
    \/ \E param \in UserParams : CacheClear(param, TRUE) /\ COnly
    \/ CacheColdStart /\ COnly
    \/ CacheLoadDone(TRUE) /\ COnly
    \/ CacheEvict /\ COnly
    \/ \E step \in CacheSteps : CacheAdvance(step) /\ COnly

TransportInit ==
    /\ transports = [x \in AllIds |-> NoStream]
    /\ keepAliveTimers = [x \in AllIds |-> NoTimer]
    /\ liveTimers = {}
    /\ streams = [s \in Streams |-> UnusedStream]
    /\ genCount = 0
    /\ last = NoneYet

TransportNext ==
    \/ \E hdr \in Headers : GetMcp(hdr) /\ TOnly
    \/ \E hdr \in SseHeaders : GetSse(hdr) /\ TOnly
    \/ \E s \in Streams : ConnectOk(s) /\ TOnly
    \/ \E s \in Streams : ConnectFail(s) /\ TOnly
    \/ \E s \in Streams : Close(s) /\ TOnly
    \/ \E t \in Streams, writeOk \in BOOLEAN : Tick(t, writeOk) /\ TOnly
    \/ \E hdr \in Headers : DeleteMcp(hdr) /\ TOnly
    \/ \E hdr \in Headers : \E out \in OutcomesFor(hdr) : PostMcp(hdr, out) /\ TOnly
    \/ \E query \in Headers : \E out \in OutcomesFor(query) :
           PostMessages(query, out) /\ TOnly
    \/ \E m \in OtherMethods : OtherVerb(m) /\ TOnly


(***************************************************************************)
(* Specifications.  The transport layer, the SessionStore and the          *)
(* CalendarCache share no state; each is explored on its own.              *)
(***************************************************************************)
vars == <<tvars, clockvars, svars, cvars, focus, envvars>>

EnvInit == failures = 0 /\ inflight = {} /\ serial = << >>

Init == TransportInit /\ ClockInit /\ SessionInit /\ CacheInit /\ EnvInit

TransportStart == Init /\ focus = "transport"

TransportSpec == TransportStart /\ [][TransportNext]_vars

SessionStart == Init /\ focus = "session"

SessionSpec == SessionStart /\ [][SessionNext]_vars

CacheStart == Init /\ focus = "cache"

CacheSpec == CacheStart /\ [][CacheNext]_vars

\* the SessionStore with a storage whose writes may be rejected
SessionFailNext ==
    \/ \E body \in {b \in CreateBodies : b.hasData}, ok \in BOOLEAN :
           HandleCreateSession(body, ok) /\ SFail(ok)
    \/ HandleCreateBadBody /\ SOnly
    \/ \E id \in SessionParams, ok \in BOOLEAN : HandleGetSession(id, ok) /\ SFail(ok)
    \/ \E id \in SessionParams, data \in UpdateData, ok \in BOOLEAN :
           HandleUpdateSession(id, data, ok) /\ SFail(ok)
    \/ \E id \in SessionParams, ok \in BOOLEAN : HandleDeleteSession(id, ok) /\ SFail(ok)
    \/ SessionColdStart /\ SOnly
    \/ \E ok \in BOOLEAN : SessionLoadDone(ok) /\ SFail(ok)
    \/ SessionEvict /\ SOnly
    \/ \E step \in SessionSteps : SessionAdvance(step) /\ SOnly

\* the CalendarCache with a storage whose writes may be rejected
CacheFailNext ==
    \/ \E route \in Routes : CacheGet(route) /\ COnly
    \/ \E route \in Routes, ok \in BOOLEAN : CachePut(route, "d1", ok) /\ CFail(ok)
    \/ \E route \in Routes : CachePutBadBody(route) /\ COnly
    \/ \E param \in UserParams, ok \in BOOLEAN : CacheClear(param, ok) /\ CFail(ok)
    \/ CacheColdStart /\ COnly
    \/ \E ok \in BOOLEAN : CacheLoadDone(ok) /\ CFail(ok)
    \/ CacheEvict /\ COnly
    \/ \E step \in CacheSteps : CacheAdvance(step) /\ COnly

\* both durable objects, one of them exercised per behaviour
StoreNext == SessionNext \/ CacheNext

StoreStart == Init /\ focus \in {"session", "cache"}

StoreSpec == StoreStart /\ [][StoreNext]_vars

(***************************************************************************)
(* Requests that overlap.  handleUpdateSession reads the request body with *)
(* await request.json() (session-store.ts:141) before it looks at the map: *)
(* between the delivery of the request and the rest of the handler, other  *)
(* requests of the same instance may be delivered and run.  From the end   *)
(* of the read to the awaited put the handler runs without interruption.   *)
(* serial is the map a SessionStore would hold that ran every request to   *)
(* its end at the moment it was delivered.                                 *)
(***************************************************************************)
ConcurrentData == {("k2" :> "v2"), ("k2" :> "v3"), ("k3" :> "v3")}

\* session-store.ts:151-161 applied to the map m
SerialUpdate(m, id, data, t) ==
    IF id \in DOMAIN m
    THEN MapSet(m, id, [m[id] EXCEPT !.data = ShallowMerge(@, data),
                                     !.updatedAt = t])
    ELSE m

\* session-store.ts:139-141  an update is delivered and starts reading its body
ArriveUpdate(id, data) ==
    /\ focus = "session"
    /\ Serving(sphase)
    /\ Cardinality(inflight) < MaxInflight
    /\ [id |-> id, data |-> data] \notin inflight
    /\ inflight' = inflight \cup {[id |-> id, data |-> data]}
    /\ serial' = SerialUpdate(serial, id, data, now)
    /\ UNCHANGED <<svars, clockvars>>

\* session-store.ts:141-168  the body has been read: the rest of the handler
ResumeUpdate(r) ==
    /\ r \in inflight
    /\ HandleUpdateSession(r.id, r.data, TRUE)
    /\ inflight' = inflight \ {r}
    /\ UNCHANGED serial

\* session-store.ts:75-102  a create, delivered while no update is being read
CreateAlone(body) ==
    /\ inflight = {}
    /\ HandleCreateSession(body, TRUE)
    /\ serial' = MapSet(serial, NanoId(idCount + 1),
                        NewSession(NanoId(idCount + 1), body, now))
    /\ UNCHANGED inflight

\* session-store.ts:180-199  a delete has no await before it changes the map
DeleteOnArrival(id) ==
    /\ HandleDeleteSession(id, TRUE)
    /\ serial' = MapDelete(serial, id)
    /\ UNCHANGED inflight

SConcurrent == UNCHANGED <<tvars, cvars, focus, failures>>

ConcurrentNext ==
    \/ SessionColdStart /\ SOnly
    \/ SessionLoadDone(TRUE) /\ SOnly
    \/ \E body \in CreateBodies : CreateAlone(body) /\ SConcurrent
    \/ \E id \in SessionParams \ {NoId}, data \in ConcurrentData :
           ArriveUpdate(id, data) /\ SConcurrent
    \/ \E r \in inflight : ResumeUpdate(r) /\ SConcurrent
    \/ \E id \in SessionParams \ {NoId} : DeleteOnArrival(id) /\ SConcurrent

ConcurrentSpec == SessionStart /\ [][ConcurrentNext]_vars

(***************************************************************************)
(* Identifiers that contain the delimiter.  The userId comes from the      *)
(* query string and the calendar id from the path (session-store.ts:268,   *)
(* 283, 288); neither is checked, so both may contain ':'.  In these runs  *)
(* every put stores the name of the triple it is addressed to.             *)
(***************************************************************************)
IdA == <<"a">>
IdAB == <<"a", ":", "b">>
IdBC == <<"b", ":", "c">>
IdC == <<"c">>

DelimiterRoutes ==
    { [category |-> "events", user |-> IdA, calendar |-> IdBC],
      [category |-> "events", user |-> IdAB, calendar |-> IdC],
      [category |-> "events", user |-> NoParam, calendar |-> IdC],
      [category |-> "calendars", user |-> IdAB, calendar |-> NoParam] }

\* the (category, owner, sub-resource id) triple a route addresses
TripleOf(route) == <<route.category, UserIdOf(route.user), route.calendar>>

\* the value the owner of a triple stores
DataOf(route) ==
    CASE TripleOf(route) = <<"events", IdA, IdBC>> -> "events of a, calendar b:c"
      [] TripleOf(route) = <<"events", IdAB, IdC>> -> "events of a:b, calendar c"
      [] TripleOf(route) = <<"events", StrDefault, IdC>> -> "events of default, calendar c"
      [] TripleOf(route) = <<"calendars", IdAB, NoParam>> -> "calendars of a:b"

DelimiterNext ==
    \/ \E route \in DelimiterRoutes : CacheGet(route) /\ COnly
    \/ \E route \in DelimiterRoutes : CachePut(route, DataOf(route), TRUE) /\ COnly
    \/ CacheColdStart /\ COnly
    \/ CacheLoadDone(TRUE) /\ COnly
    \/ CacheEvict /\ COnly
    \/ \E step \in CacheSteps : CacheAdvance(step) /\ COnly

DelimiterSpec == CacheStart /\ [][DelimiterNext]_vars

\* both durable objects over a storage whose writes may be rejected
FailNext == SessionFailNext \/ CacheFailNext

FailSpec == StoreStart /\ [][FailNext]_vars

\* the transport layer next to a SessionStore: session streams are opened
\* and torn down while records are created, deleted and expired
LinkNext ==
    \/ \E hdr \in ClientIds : GetMcp(hdr) /\ TOnly
    \/ \E s \in Streams : ConnectOk(s) /\ TOnly
    \/ \E s \in Streams : Close(s) /\ TOnly
    \/ \E t \in Streams : Tick(t, FALSE) /\ TOnly
    \/ \E hdr \in ClientIds : DeleteMcp(hdr) /\ TOnly
    \/ \E body \in {b \in CreateBodies : ~b.hasData} :
           HandleCreateSession(body, TRUE) /\ SOnly
    \/ \E id \in SessionParams : HandleDeleteSession(id, TRUE) /\ SOnly
    \/ SessionColdStart /\ SOnly
    \/ SessionLoadDone(TRUE) /\ SOnly
    \/ SessionEvict /\ SOnly
    \/ \E step \in SessionSteps : SessionAdvance(step) /\ SOnly

LinkStart == Init /\ focus = "session"

LinkSpec == LinkStart /\ [][LinkNext]_vars

(***************************************************************************)
(* Claims about the transport layer.                                       *)
(***************************************************************************)
RegVars == <<transports, keepAliveTimers, liveTimers>>

\* every GET handler has returned after starting its pinger
Settled == \A s \in Streams : Used(s) => streams[s].pc = "streaming"

Bindings == {x \in AllIds : transports[x] # NoStream}
Timers == {x \in AllIds : keepAliveTimers[x] # NoTimer}

\* C1: a keep-alive timer is registered for a session id iff a transport
\* binding is registered for it, and the number of live timers equals the
\* number of bindings.  Stated for the states in which no GET handler is
\* suspended or has failed, where the claim is weakest.
C1_TimerIffBinding ==
    Settled => /\ Timers = Bindings
               /\ Cardinality(liveTimers) = Cardinality(Bindings)

\* C2: a heartbeat write that fails tears the session down: after the
\* callback the timer of the session is stopped and no binding is
\* registered for its id.
C2_WriteFailureCleansUp ==
    [][\A t \in Streams :
          (Tick(t, FALSE) /\ Bound(streams[t].sid))
              => /\ keepAliveTimers'[streams[t].sid] = NoTimer
                 /\ transports'[streams[t].sid] = NoStream]_vars

\* C7: a GET registers the binding of its new stream under its session id,
\* replacing whatever was registered there (the supplied id when the
\* unified GET carries one); the registry never holds a stream under an id
\* other than the stream's own, so an id has one binding and a stream one id.
C7_GetReplacesBinding ==
    /\ [](\A x \in AllIds : transports[x] # NoStream =>
              /\ Used(transports[x])
              /\ streams[transports[x]].sid = x)
    /\ [][\A hdr \in Headers :
            (GetMcp(hdr) \/ GetSse(hdr)) =>
               /\ transports'[streams'[NextStream].sid] = NextStream
               /\ (GetMcp(hdr) /\ hdr # NoId) => streams'[NextStream].sid = hdr]_vars

\* C7 witness: a stream is registered under an id while an older stream
\* opened under the same id is still open.
C7_Witness ==
    \E s, u \in Streams :
        /\ s # u /\ Used(s) /\ Used(u)
        /\ streams[s].sid = streams[u].sid
        /\ ~streams[s].closed /\ ~streams[u].closed
        /\ transports[streams[s].sid] = s

Generated(id) == id \in {GenId(n) : n \in 1..genCount}

\* the rule of the unified endpoint: a supplied id is reused and not echoed,
\* a missing one is generated and exposed in Mcp-Session-Id
HeaderRule(s) ==
    /\ streams[s].reqHdr # NoId =>
          streams[s].sid = streams[s].reqHdr /\ streams[s].respHdr = NoId
    /\ streams[s].reqHdr = NoId =>
          Generated(streams[s].sid) /\ streams[s].respHdr = streams[s].sid

\* C8 as claimed: the rule holds for the streams of both endpoints.
C8_HeaderRuleBothVariants == \A s \in Streams : Used(s) => HeaderRule(s)

\* C8 amended: the rule holds on /mcp; on /sse the id is always a newly
\* generated one, whether or not the request carried a session id, and no
\* Mcp-Session-Id response header is set.
C8_HeaderRule ==
    /\ [](\A s \in Streams :
            /\ streams[s].endpoint = "mcp" => HeaderRule(s)
            /\ streams[s].endpoint = "sse" =>
                  Generated(streams[s].sid) /\ streams[s].respHdr = NoId)
    /\ [][\A hdr \in SseHeaders :
            (GetSse(hdr) \/ GetMcp(NoId)) =>
                streams'[NextStream].sid \notin Headers]_vars

\* C8 witness: a unified stream and a legacy stream, both opened by
\* requests that carried a session id.
C8_Witness ==
    \E s, u \in Streams :
        /\ streams[s].endpoint = "mcp" /\ streams[s].reqHdr # NoId
        /\ streams[u].endpoint = "sse" /\ streams[u].reqHdr # NoId

C10_BoundPost ==
    [][\A id \in Headers : \A out \in OutcomesFor(id) :
          (Bound(id) /\ (PostMcp(id, out) \/ PostMessages(id, out))) =>
             /\ UNCHANGED RegVars
             /\ last'.note \in {"forwarded", "handlerError"}
             /\ (out.threw /\ ~out.sent) =>
                    last'.status = 500 /\ last'.responses = 1
             /\ out.sent => last'.status = 0 /\ last'.responses = 1]_vars

\* C10 witness: a unified POST for a bound id failed after bytes were sent.
C10_Witness ==
    /\ last.op = "POST /mcp" /\ last.note = "handlerError" /\ last.status = 0
    /\ Bindings # {}

C12_Delete ==
    [][\A hdr \in Headers :
          (last'.op = "DELETE /mcp" /\ DeleteMcp(hdr)) =>
             /\ Bound(hdr) =>
                   /\ last'.status = 202
                   /\ transports'[hdr] = NoStream
                   /\ keepAliveTimers'[hdr] = NoTimer
                   /\ liveTimers' = liveTimers \ {keepAliveTimers[hdr]}
             /\ ~Bound(hdr) => last'.status = 404 /\ UNCHANGED RegVars
             /\ \A x \in AllIds \ {hdr} :
                   /\ transports'[x] = transports[x]
                   /\ keepAliveTimers'[x] = keepAliveTimers[x]]_vars

\* C12 witness: a DELETE was answered 202 and another session still has its
\* binding and its running timer.
C12_Witness ==
    /\ last.op = "DELETE /mcp" /\ last.status = 202
    /\ \E x \in Bindings : keepAliveTimers[x] \in liveTimers

\* a stream is torn down once it has closed or its binding was removed
TornDown(s) == streams[s].closed \/ transports[streams[s].sid] # s

\* C13: once every stream a GET opened has been torn down by a DELETE or a
\* disconnect and no GET handler is still in progress, no keep-alive timer
\* is registered.
C13_NoTimerAfterTeardown ==
    (\A s \in Streams : Used(s) => TornDown(s) /\ streams[s].pc # "connecting")
        => liveTimers = {} /\ Timers = {}

\* the timer of stream s is running and its callback finds a binding, so
\* that it writes a heartbeat to s
Pinged(s) == s \in liveTimers /\ Bound(streams[s].sid)

\* C14: every stream a GET opened and that is still open is pinged.
C14_OpenStreamsPinged ==
    \A s \in Streams :
        (streams[s].pc = "streaming" /\ ~streams[s].closed) => Pinged(s)

\* C15: cleanupSession is idempotent: for every registry the program
\* reaches and every session id, a second invocation returns the registry
\* the first one returned.
C15_CleanupIdempotent ==
    \A x \in AllIds :
        CleanupSession(CleanupSession(Reg, x), x) = CleanupSession(Reg, x)

\* C15 witness: a session was deleted and its stream then closed, so the
\* teardown ran twice for its id, while another session is still registered
\* with its timer.
C15_Witness ==
    /\ last.op = "DELETE /mcp" /\ last.status = 202
    /\ \E s \in Streams :
          /\ streams[s].closed /\ streams[s].pc = "connecting"
          /\ transports[streams[s].sid] = NoStream
    /\ \E x \in Bindings : keepAliveTimers[x] \in liveTimers

\* C16: a verb other than GET, POST and DELETE on the unified endpoint is
\* answered 405 and leaves registry, timers and streams as they were.
C16_OtherVerb ==
    [][\A m \in OtherMethods :
          (last'.op = m /\ OtherVerb(m)) =>
             /\ last'.status = 405
             /\ last'.responses = 1
             /\ UNCHANGED RegVars
             /\ streams' = streams]_vars

\* C16 witness: a request with another verb was answered 405 while a
\* session is registered with its timer.
C16_Witness ==
    /\ last.op \in OtherMethods /\ last.status = 405
    /\ \E x \in Bindings : keepAliveTimers[x] \in liveTimers

(***************************************************************************)
(* Claims about the CalendarCache.                                         *)
(***************************************************************************)
\* the keys of owner p: the keys the router builds for p's requests
KeysOfOwner(p) == {KeyOf(route) : route \in {r \in Routes : UserIdOf(r.user) = p}}

Owners == {UserIdOf(param) : param \in UserParams}

\* C3: a clear for owner o removes only o's entries: every entry of another
\* owner p (bobby when o is bob, or an entry of p whose calendar id is o) is
\* still present afterwards with the data and timestamp it had.
C3_ClearRemovesOnlyOwner ==
    [][\A param \in UserParams :
          (cphase = "ready" /\ cresp'.op = "clear" /\ CacheClear(param, TRUE))
          => \A p \in Owners \ {UserIdOf(param)} :
                \A key \in KeysOfOwner(p) \cap DOMAIN cache :
                    key \in DOMAIN cache' /\ cache'[key] = cache[key]]_vars

\* the TTL of a key's category: 24 hours for preferences, 5 minutes otherwise
CategoryTtl(category) ==
    IF category = "preferences" THEN 24 * 60 * Minute ELSE 5 * Minute

\* C4: a get is a hit if and only if an entry exists for the key and
\* now - timestamp is strictly less than the TTL of the key's category, and a
\* get changes neither the cache nor what is persisted (so no entry's
\* timestamp), so reads never extend an entry's validity.
C4_HitIffFresh ==
    [][\A route \in Routes :
          (cphase = "ready" /\ cresp'.op = "get" /\ CacheGet(route))
          => /\ (cresp'.xcache = "HIT")
                  <=> /\ KeyOf(route) \in DOMAIN cache
                      /\ now - cache[KeyOf(route)].timestamp
                            < CategoryTtl(route.category)
             /\ (cresp'.xcache = "HIT") <=> (cresp'.status = 200)
             /\ cache' = cache
             /\ cstored' = cstored]_vars

\* a get of an entry read before misses when the entry's age is exactly the
\* TTL of its category
C4_Witness ==
    /\ cresp.op = "get" /\ cresp.xcache = "MISS"
    /\ cresp.key \in DOMAIN cache
    /\ \/ /\ StartsWith(cresp.key, StrPreferences)
          /\ now - cache[cresp.key].timestamp = PREFERENCES_TTL
       \/ /\ ~StartsWith(cresp.key, StrPreferences)
          /\ now - cache[cresp.key].timestamp = DEFAULT_TTL

(***************************************************************************)
(* Claims about the SessionStore.                                          *)
(***************************************************************************)
\* the record is there for the next request: in memory while the instance
\* is ready, in storage (what the next load starts from) otherwise
SessionPresent(id) ==
    IF sphase = "ready"
    THEN id \in DOMAIN sessions
    ELSE sstored.present /\ id \in DOMAIN sstored.map

\* C5: under the 1-hour TTL a record whose last read (or write) is at most
\* 30 minutes old is never purged, whatever cold loads happened in between,
\* and a record not read or updated for more than 1 hour is absent once a
\* cold load has completed.
C5_ReadKeepsAlive ==
    /\ [](\A id \in SessionIds :
             (access[id] # Never /\ now - access[id] <= 30 * Minute)
             => SessionPresent(id))
    /\ [][(sphase = "loading" /\ sphase' = "ready")
          => \A id \in SessionIds :
                (access[id] # Never /\ now - access[id] > SESSION_TTL)
                => id \notin DOMAIN sessions']_vars

\* a get served right after a cold load finds a record created more than
\* one TTL ago
C5_Witness ==
    /\ sresp.op = "get" /\ sresp.status = 200 /\ sresp.cold
    /\ \E id \in DOMAIN sessions :
          /\ now - sessions[id].createdAt > SESSION_TTL
          /\ access[id] = now

(***************************************************************************)
(* Claims about both durable objects.                                      *)
(***************************************************************************)
\* what the load leaves in memory: the persisted map without the expired
LoadedSessions ==
    IF sstored.present THEN CleanExpiredSessions(sstored.map, now) ELSE EmptyMap

LoadedCache ==
    IF cstored.present THEN CleanExpiredEntries(cstored.map, now) ELSE EmptyMap

\* C6: on a cold start of the SessionStore, and of the CalendarCache, the
\* request that arrived is held while the load runs and is served only by a
\* ready instance; the load leaves in memory exactly the persisted map
\* without its expired records, and nothing changes that map before the held
\* request is served.
C6_HeldUntilLoaded ==
    /\ [][sphase = "loading" => sheld']_vars
    /\ [][(sheld /\ ~sheld') => sphase = "ready"]_vars
    /\ [][(sphase = "loading" /\ sphase' = "ready")
          => sessions' = LoadedSessions]_vars
    /\ [][(sheld /\ sphase = "ready" /\ sheld') => sessions' = sessions]_vars
    /\ [][cphase = "loading" => cheld']_vars
    /\ [][(cheld /\ ~cheld') => cphase = "ready"]_vars
    /\ [][(cphase = "loading" /\ cphase' = "ready")
          => cache' = LoadedCache]_vars
    /\ [][(cheld /\ cphase = "ready" /\ cheld') => cache' = cache]_vars

\* a held get is answered from a loaded map that kept a live record and
\* dropped an expired one
C6_SessionHeldServed ==
    /\ sresp.op = "get" /\ sresp.status = 200 /\ sresp.cold
    /\ Cardinality(DOMAIN sessions) = 1
    /\ idCount = 2
    /\ \A id \in SessionIds : access[id] # Never

C6_CacheHeldServed ==
    /\ cresp.op = "get" /\ cresp.xcache = "HIT" /\ cresp.cold

C6_Witness == C6_SessionHeldServed \/ C6_CacheHeldServed

(***************************************************************************)
(* Claims about the operations of the SessionStore.                        *)
(***************************************************************************)
\* the ids create has handed out so far
Issued == {NanoId(n) : n \in 1..idCount}

StoredSessions == IF sstored.present THEN sstored.map ELSE EmptyMap

\* C18: create stores, persists and returns a record with createdAt =
\* updatedAt = now, whose data is the body's data or the empty mapping when
\* the body has none; every record, in memory and in storage, has
\* updatedAt >= createdAt in every reachable state.
C18_CreateStamps ==
    /\ [](\A id \in DOMAIN sessions :
             sessions[id].updatedAt >= sessions[id].createdAt)
    /\ [](\A id \in DOMAIN StoredSessions :
             StoredSessions[id].updatedAt >= StoredSessions[id].createdAt)
    /\ [][\A body \in CreateBodies :
            (sresp'.op = "create" /\ sresp'.status = 200
                /\ HandleCreateSession(body, TRUE))
            => /\ sresp'.body.createdAt = now /\ sresp'.body.updatedAt = now
               /\ sresp'.body.userId = body.userId
               /\ body.hasData => sresp'.body.data = body.data
               /\ ~body.hasData => sresp'.body.data = EmptyMap
               /\ sessions'[sresp'.body.id] = sresp'.body
               /\ StoredSessions'[sresp'.body.id] = sresp'.body]_vars

\* C18 witness: after a cold load a record created without data, read at a
\* later time, has updatedAt > createdAt, and a create at a time after zero
\* has just returned.
C18_Witness ==
    /\ sresp.op = "create" /\ sresp.status = 200 /\ now > 0
    /\ sresp.body.createdAt = now
    /\ \E id \in DOMAIN sessions :
          /\ sessions[id].data = EmptyMap
          /\ sessions[id].updatedAt > sessions[id].createdAt

\* C19: get of an existing record sets its updatedAt to now and changes
\* nothing else, persists the map and returns the record; get of an id
\* without a record answers 404 (400 when no id is given) and changes
\* neither the map in memory nor the persisted one.
C19_GetTouches ==
    [][\A id \in SessionParams :
          (sresp'.op = "get" /\ HandleGetSession(id, TRUE))
          => /\ id \in DOMAIN sessions =>
                   /\ sresp'.status = 200
                   /\ sessions' = [sessions EXCEPT ![id].updatedAt = now]
                   /\ sresp'.body = sessions'[id]
                   /\ sstored'.present /\ sstored'.map = sessions'
             /\ id \notin DOMAIN sessions =>
                   /\ sresp'.status = IF id = NoId THEN 400 ELSE 404
                   /\ sresp'.body = NoBody
                   /\ sessions' = sessions
                   /\ sstored' = sstored]_vars

\* C19 witness: a get returned a record with a new updatedAt, and the
\* persisted map holds the touched record.
C19_Witness ==
    /\ sresp.op = "get" /\ sresp.status = 200
    /\ sresp.body.updatedAt = now /\ sresp.body.createdAt < now
    /\ sstored.present
    /\ sresp.body.id \in DOMAIN sstored.map
    /\ sstored.map[sresp.body.id] = sresp.body

\* C20: update of an existing record makes its data the shallow merge of
\* the old data with the given data (every given key takes the given value,
\* every other key keeps its value, no other key appears), sets updatedAt
\* to now, changes nothing else and persists the map; update of an id
\* without a record answers 404 (400 when no id is given) and changes
\* nothing.
C20_UpdateMerges ==
    [][\A id \in SessionParams : \A data \in UpdateData :
          (sresp'.op = "update" /\ HandleUpdateSession(id, data, TRUE))
          => /\ id \in DOMAIN sessions =>
                   /\ sresp'.status = 200
                   /\ DOMAIN sessions' = DOMAIN sessions
                   /\ \A x \in DOMAIN sessions \ {id} : sessions'[x] = sessions[x]
                   /\ DOMAIN sessions'[id].data
                         = DOMAIN sessions[id].data \cup DOMAIN data
                   /\ \A k \in DOMAIN data : sessions'[id].data[k] = data[k]
                   /\ \A k \in DOMAIN sessions[id].data \ DOMAIN data :
                         sessions'[id].data[k] = sessions[id].data[k]
                   /\ sessions'[id].updatedAt = now
                   /\ sessions'[id].createdAt = sessions[id].createdAt
                   /\ sessions'[id].userId = sessions[id].userId
                   /\ sessions'[id].id = id
                   /\ sresp'.body = sessions'[id]
                   /\ sstored'.present /\ sstored'.map = sessions'
             /\ id \notin DOMAIN sessions =>
                   /\ sresp'.status = IF id = NoId THEN 400 ELSE 404
                   /\ sessions' = sessions
                   /\ sstored' = sstored]_vars

\* C20 witness: an update overrode one key of a record and kept the other.
C20_Witness ==
    /\ sresp.op = "update" /\ sresp.status = 200
    /\ sresp.body.id \in DOMAIN sessions
    /\ sessions[sresp.body.id].data = ("k1" :> "v1" @@ "k2" :> "v2")
    /\ sessions[sresp.body.id].updatedAt > sessions[sresp.body.id].createdAt

\* ------------------------------------------------------------------------
\* Round trips and deletion in the SessionStore
\* ------------------------------------------------------------------------

\* the ids a caller has deleted
Deleted == {id \in Issued : access[id] = Never}

\* C21: for a session whose data is empty, update(S, d) answers and keeps
\* data = d, and a get(S) that follows the update answers the same data;
\* once S is deleted it is in neither the memory map nor the stored map, and
\* every later get or update of S answers 404, before and after a cold load.
C21_RoundTripAndDelete ==
    /\ [](\A id \in Deleted :
             id \notin DOMAIN sessions /\ id \notin DOMAIN StoredSessions)
    /\ [][\A id \in Issued :
            /\ \A data \in UpdateData :
                  (sresp'.op = "update" /\ HandleUpdateSession(id, data, TRUE))
                  => /\ (id \in Deleted) => sresp'.status = 404
                     /\ (id \in DOMAIN sessions /\ sessions[id].data = EmptyMap)
                        => /\ sresp'.status = 200
                           /\ sresp'.body.data = data
                           /\ sessions'[id].data = data
            /\ (sresp'.op = "get" /\ HandleGetSession(id, TRUE))
               => /\ (id \in Deleted) => sresp'.status = 404
                  /\ (sresp.op = "update" /\ sresp.status = 200 /\ sresp.id = id
                      /\ sresp'.status = 200)
                     => sresp'.body.data = sresp.body.data]_vars

\* a get of a deleted session answered 404 by an instance that had to load
C21_Witness ==
    /\ sresp.op = "get" /\ sresp.status = 404 /\ sresp.cold
    /\ sresp.id \in Deleted

\* an update of a session created without data, answered with the new data
C21_WitnessRoundTrip ==
    /\ sresp.op = "update" /\ sresp.status = 200
    /\ sresp.body.userId = "alice" /\ sresp.body.data = ("k2" :> "v2")

\* C22: delete(id) answers success = true exactly when a record with that id
\* was in the map; the record is then removed and the stored map equals the
\* memory map.  With no such record it answers success = false and neither
\* map changes.  A delete that follows a delete of the same id answers false.
C22_DeleteResult ==
    /\ []((sresp.op = "delete" /\ sresp.status = 200)
           => sresp.id \notin DOMAIN sessions)
    /\ [][\A id \in SessionIds \cup {UnknownSession} :
            (sresp'.op = "delete" /\ HandleDeleteSession(id, TRUE))
            => /\ sresp'.status = 200
               /\ sresp'.body.success = (id \in DOMAIN sessions)
               /\ IF id \in DOMAIN sessions
                  THEN /\ DOMAIN sessions' = DOMAIN sessions \ {id}
                       /\ \A x \in DOMAIN sessions' : sessions'[x] = sessions[x]
                       /\ sstored'.present /\ sstored'.map = sessions'
                  ELSE UNCHANGED <<sessions, sstored>>
               /\ (sresp.op = "delete" /\ sresp.id = id)
                  => sresp'.body.success = FALSE]_vars

\* two deletes of the same id in a row: the first removed the record, the
\* second answers false
C22_Witness ==
    /\ sresp.op = "delete" /\ sresp.status = 200
    /\ sresp.id \in Deleted
    /\ sresp.body.success = FALSE

\* ------------------------------------------------------------------------
\* Entries of the CalendarCache
\* ------------------------------------------------------------------------

\* C24: the TTL is chosen by category on every path.  A get of an entry put
\* 10 minutes earlier is a hit for a preferences key and a miss for a key of
\* any other category, and the sweep of a cold load removes a stored entry
\* exactly when its age exceeds the TTL of its category (24 hours for
\* preferences, 5 minutes otherwise).
C24_TtlByCategory ==
    [][\A route \in Routes :
          LET key == KeyOf(route)
          IN /\ (cresp'.op = "get" /\ CacheGet(route)
                 /\ key \in DOMAIN cache
                 /\ now - cache[key].timestamp = 10 * Minute)
                => (cresp'.xcache = "HIT") <=> (route.category = "preferences")
             /\ (CacheLoadDone(TRUE) /\ cstored.present
                 /\ key \in DOMAIN cstored.map)
                => (key \notin DOMAIN cache')
                     <=> (now - cstored.map[key].timestamp
                             > CategoryTtl(route.category))]_vars

\* a preferences entry put 10 minutes ago went through a cold load and is
\* read as a hit
C24_Witness ==
    /\ cresp.op = "get" /\ cresp.xcache = "HIT" /\ cresp.cold
    /\ StartsWith(cresp.key, StrPreferences)
    /\ cresp.key \in DOMAIN cache
    /\ now - cache[cresp.key].timestamp = 10 * Minute

\* an entry of another category put 10 minutes ago is read as a miss
C24_WitnessMiss ==
    /\ cresp.op = "get" /\ cresp.xcache = "MISS"
    /\ cresp.key \in DOMAIN cache
    /\ ~StartsWith(cresp.key, StrPreferences)
    /\ now - cache[cresp.key].timestamp = 10 * Minute

\* C25: a clear for owner o removes every entry of o in every category,
\* persists the map that remains, and answers a count equal to the number of
\* entries of o that were present before.
C25_ClearCounts ==
    [][\A param \in UserParams :
          (cresp'.op = "clear" /\ CacheClear(param, TRUE))
          => LET mine == KeysOfOwner(UserIdOf(param)) \cap DOMAIN cache
             IN /\ mine \cap DOMAIN cache' = {}
                /\ cstored'.present /\ cstored'.map = cache'
                /\ cresp'.cleared = Cardinality(mine)]_vars

\* C26: when a cold load has finished, every entry that survived its sweep
\* would be a hit: now - timestamp is strictly less than the TTL of the
\* entry's category, also for an entry whose age equals its TTL exactly.
C26_SurvivorsAreFresh ==
    [][CacheLoadDone(TRUE)
       => \A route \in Routes :
             KeyOf(route) \in DOMAIN cache'
             => now - cache'[KeyOf(route)].timestamp
                   < CategoryTtl(route.category)]_vars

\* C27: a put stores the data under its key with timestamp = now, whether or
\* not the key had an entry, changes no other entry, and persists the map; a
\* hit answers exactly the data the entry holds; and an entry, in memory or
\* in storage, gets another value only by a put on its key, so a hit answers
\* the data of the most recent put on that key.
C27_PutThenGet ==
    /\ []((cphase = "ready" /\ cstored.present) => cstored.map = cache)
    /\ [][\A route \in Routes, data \in CacheData :
            CachePut(route, data, TRUE)
            => /\ cresp'.status = 200
               /\ DOMAIN cache' = DOMAIN cache \cup {KeyOf(route)}
               /\ cache'[KeyOf(route)] = [data |-> data, timestamp |-> now]
               /\ \A k \in DOMAIN cache \ {KeyOf(route)} : cache'[k] = cache[k]
               /\ cstored'.present /\ cstored'.map = cache']_vars
    /\ [][\A route \in Routes :
            (cresp'.op = "get" /\ CacheGet(route) /\ cresp'.xcache = "HIT")
            => cresp'.data = cache[KeyOf(route)].data]_vars
    /\ [][\A key \in DOMAIN cstored.map \cap DOMAIN cstored'.map :
            cstored'.map[key] # cstored.map[key]
            => \E route \in Routes, data \in CacheData :
                  KeyOf(route) = key /\ CachePut(route, data, TRUE)]_vars
    /\ [][\A key \in DOMAIN cache \cap DOMAIN cache' :
            cache'[key] # cache[key]
            => \E route \in Routes, data \in CacheData :
                  KeyOf(route) = key /\ CachePut(route, data, TRUE)]_vars

\* a hit on an entry put after the clock had advanced, next to an older
\* entry of another key that the put left alone
C27_Witness ==
    /\ cresp.op = "get" /\ cresp.xcache = "HIT" /\ cresp.data = "d2"
    /\ cresp.key \in DOMAIN cache
    /\ cache[cresp.key].data = "d2" /\ cache[cresp.key].timestamp > 0
    /\ \E k \in DOMAIN cache : k # cresp.key /\ cache[k].timestamp = 0

\* ------------------------------------------------------------------------
\* Keep-alive timers
\* ------------------------------------------------------------------------

\* the live interval timers whose callback pings for session id x
LiveTimersOf(x) == {t \in liveTimers : streams[t].sid = x}

\* C30: starting the keep-alive timer for a session id that already has a
\* timer cancels that timer, and in every reachable state each session id has
\* at most one live interval timer, which is the one the timer map records
\* for the id (and every recorded timer is live).
C30_OneTimerPerId ==
    /\ [](\A x \in AllIds :
             /\ Cardinality(LiveTimersOf(x)) <= 1
             /\ LiveTimersOf(x) = {keepAliveTimers[x]} \ {NoTimer})
    /\ [][\A s \in Streams :
            (ConnectOk(s) /\ keepAliveTimers[streams[s].sid] # NoTimer)
            => /\ keepAliveTimers[streams[s].sid] \notin liveTimers'
               /\ keepAliveTimers'[streams[s].sid] = s
               /\ s \in liveTimers']_vars

\* two open streams of one session id, both served by their GET handlers:
\* the timer of the later one is live, the timer of the earlier one is not
C30_Witness ==
    \E s \in Streams, u \in Streams :
        /\ s # u /\ streams[s].sid = streams[u].sid
        /\ streams[s].pc = "streaming" /\ streams[u].pc = "streaming"
        /\ ~streams[s].closed /\ ~streams[u].closed
        /\ keepAliveTimers[streams[u].sid] = u
        /\ u \in liveTimers /\ s \notin liveTimers

\* ------------------------------------------------------------------------
\* The transport layer and the SessionStore
\* ------------------------------------------------------------------------

\* C29: tearing down a transport binding, by DELETE, by the close of the
\* stream or by a failed heartbeat write, leaves the SessionStore as it was
\* (no record deleted or modified, in memory or in storage); deleting a
\* record, or the sweep that expires records, leaves the transport registry,
\* the timers and the streams as they were.
C29_LayersIndependent ==
    /\ [][(/\ Bindings # {}
           /\ \/ \E hdr \in ClientIds : DeleteMcp(hdr)
              \/ \E s \in Streams : Close(s)
              \/ \E t \in Streams : Tick(t, FALSE))
          => UNCHANGED <<sessions, sstored, svars>>]_vars
    /\ [][(/\ sphase # "evicted"
           /\ \/ \E id \in DOMAIN sessions : HandleDeleteSession(id, TRUE)
              \/ SessionLoadDone(TRUE))
          => UNCHANGED <<RegVars, streams, tvars>>]_vars

\* a binding has just been torn down by DELETE while a record is stored, and
\* a record has been deleted before
C29_Witness ==
    /\ last.op = "DELETE /mcp" /\ last.status = 202
    /\ Bindings = {}
    /\ sessions # EmptyMap /\ sstored.map = sessions
    /\ Deleted # {}

\* a record has just been deleted while a binding and its timer are live
C29_WitnessStore ==
    /\ sresp.op = "delete" /\ sresp.status = 200 /\ sresp.body.success
    /\ Bindings # {} /\ liveTimers # {}

\* ------------------------------------------------------------------------
\* Rejected storage writes
\* ------------------------------------------------------------------------

\* C28: every operation of the SessionStore and of the CalendarCache whose
\* storage write is rejected answers 500, and no operation (create, get,
\* update, delete, put, clear, the sweep of a cold load) ends without an
\* answer or leaves a rejected write unhandled.
C28_FailuresAnswered ==
    /\ [](/\ sresp.op # "none" => sresp.status # 0
          /\ cresp.op # "none" => cresp.status # 0
          /\ ~sresp.unhandled /\ ~cresp.unhandled)
    /\ [][/\ \A body \in CreateBodies :
               HandleCreateSession(body, FALSE) => sresp'.status = 500
          /\ \A id \in DOMAIN sessions :
               /\ HandleGetSession(id, FALSE) => sresp'.status = 500
               /\ HandleDeleteSession(id, FALSE) => sresp'.status = 500
               /\ \A data \in UpdateData :
                     HandleUpdateSession(id, data, FALSE) => sresp'.status = 500
          /\ \A route \in Routes, data \in CacheData :
               CachePut(route, data, FALSE) => cresp'.status = 500
          /\ \A param \in UserParams :
               CacheClear(param, FALSE) => cresp'.status = 500]_vars

\* ------------------------------------------------------------------------
\* Overlapping requests
\* ------------------------------------------------------------------------

\* C23: the requests of one SessionStore take effect one at a time in the
\* order of their arrival: whenever no request is in progress the map equals
\* the map obtained by running the requests one after the other in arrival
\* order (so concurrent updates of different keys are both in it).
C23_ArrivalOrder ==
    (sphase = "ready" /\ inflight = {}) => sessions = serial

\* ------------------------------------------------------------------------
\* Frame of the SessionStore operations
\* ------------------------------------------------------------------------

\* C39: a get, update or delete of session id X leaves every record with
\* another id as it was, in memory and in storage, and a get or update of X
\* leaves X's id, createdAt and userId as they were.
C39_OtherRecordsUntouched ==
    [][\A id \in SessionIds \cup {UnknownSession} :
          (\/ sresp'.op = "get" /\ HandleGetSession(id, TRUE)
           \/ sresp'.op = "delete" /\ HandleDeleteSession(id, TRUE)
           \/ \E data \in UpdateData :
                 sresp'.op = "update" /\ HandleUpdateSession(id, data, TRUE))
          => /\ \A other \in DOMAIN sessions \ {id} :
                   /\ other \in DOMAIN sessions'
                   /\ sessions'[other] = sessions[other]
             /\ \A other \in DOMAIN StoredSessions \ {id} :
                   /\ other \in DOMAIN StoredSessions'
                   /\ StoredSessions'[other] = StoredSessions[other]
             /\ DOMAIN sessions' \subseteq DOMAIN sessions
             /\ (sresp'.op # "delete" /\ id \in DOMAIN sessions)
                => /\ id \in DOMAIN sessions'
                   /\ sessions'[id].id = sessions[id].id
                   /\ sessions'[id].createdAt = sessions[id].createdAt
                   /\ sessions'[id].userId = sessions[id].userId]_vars

\* an update of one session answered while a second record, last written
\* earlier, is in the map
C39_Witness ==
    /\ sresp.op = "update" /\ sresp.status = 200
    /\ sresp.id \in DOMAIN sessions
    /\ sessions[sresp.id].updatedAt = now
    /\ \E other \in DOMAIN sessions \ {sresp.id} : sessions[other].updatedAt < now

\* ------------------------------------------------------------------------
\* Expiry in an instance that stays in memory
\* ------------------------------------------------------------------------

\* C35: a get or update of a record whose idle time now - updatedAt exceeds
\* SESSION_TTL answers 404, also in an instance that has not loaded since the
\* record expired, and the access does not give the record a new updatedAt.
C35_ExpiredNotServed ==
    [][\A id \in DOMAIN sessions :
          (/\ now - sessions[id].updatedAt > SESSION_TTL
           /\ \/ sresp'.op = "get" /\ HandleGetSession(id, TRUE)
              \/ \E data \in UpdateData :
                    sresp'.op = "update" /\ HandleUpdateSession(id, data, TRUE))
          => /\ sresp'.status = 404
             /\ id \in DOMAIN sessions'
                => sessions'[id].updatedAt = sessions[id].updatedAt]_vars

\* ------------------------------------------------------------------------
\* Memory and storage
\* ------------------------------------------------------------------------

StoredCache == IF cstored.present THEN cstored.map ELSE EmptyMap

\* C36: whenever an operation of the SessionStore or of the CalendarCache has
\* answered, or the sweep of a cold load has finished, the stored map equals
\* the memory map, so that an instance loaded at that point starts from the
\* records and entries, with the updatedAt and timestamp values, that the
\* instance it replaces held.
C36_StoredEqualsMemory ==
    /\ (sphase = "ready" /\ (sresp.op = "none" \/ sresp.status # 0))
       => StoredSessions = sessions
    /\ (cphase = "ready" /\ (cresp.op = "none" \/ cresp.status # 0))
       => StoredCache = cache

\* C37: when the storage write of a create, of an update or of a cache put
\* is rejected and the operation answers 500, the memory map is what it was
\* before the operation: the session, the merged data or the entry whose
\* write failed is not there for a later get.
C37_FailedWriteLeavesMemory ==
    [][/\ \A body \in CreateBodies :
            (HandleCreateSession(body, FALSE) /\ sresp'.status = 500)
            => sessions' = sessions
       /\ \A id \in DOMAIN sessions, data \in UpdateData :
            (HandleUpdateSession(id, data, FALSE) /\ sresp'.status = 500)
            => sessions' = sessions
       /\ \A route \in Routes, data \in CacheData :
            (CachePut(route, data, FALSE) /\ cresp'.status = 500)
            => cache' = cache]_vars

\* ------------------------------------------------------------------------
\* Cache keys
\* ------------------------------------------------------------------------

\* C38: distinct (category, owner, sub-resource id) triples address distinct
\* entries, also when an identifier contains ':' or the owner is missing: a
\* get that hits answers the value that was put for the triple the get is
\* addressed to, never the value put for another owner or calendar.
C38_TriplesApart ==
    [][\A route \in DelimiterRoutes :
          (cresp'.op = "get" /\ CacheGet(route) /\ cresp'.xcache = "HIT")
          => cresp'.data = DataOf(route)]_vars

\* ------------------------------------------------------------------------
\* What a tick writes, and where
\* ------------------------------------------------------------------------

\* the tick of timer t finds a binding for its session id and calls
\* res.write on the response t it closes over
WritesTo(t) == t \in liveTimers /\ Bound(streams[t].sid)

\* C31: a tick for session id X writes a heartbeat frame when a binding for
\* X exists, and stops its timer without writing when none exists; no
\* heartbeat is written after the teardown of the session, in particular
\* none to a stream whose close hook has torn it down.
C31_TickRule ==
    [][\A t \in Streams, writeOk \in BOOLEAN :
          Tick(t, writeOk)
          => /\ WritesTo(t) => /\ last'.note \in {"ping", "writeError"}
                               /\ ~streams[t].closed
             /\ ~WritesTo(t) => /\ last'.note = "selfStop"
                                /\ t \notin liveTimers'
                                /\ keepAliveTimers'[streams[t].sid] = NoTimer]_vars

\* ------------------------------------------------------------------------
\* Close events and replaced bindings
\* ------------------------------------------------------------------------

\* C32: the close event of a stream tears down only the binding that this
\* stream created; when a newer stream is registered under the same id, the
\* close of the older stream leaves that binding and the keep-alive timer
\* recorded for the id as they are.
C32_CloseSparesNewerBinding ==
    [][\A s \in Streams :
          (/\ Close(s)
           /\ Bound(streams[s].sid)
           /\ transports[streams[s].sid] # s)
          => /\ transports'[streams[s].sid] = transports[streams[s].sid]
             /\ keepAliveTimers'[streams[s].sid] = keepAliveTimers[streams[s].sid]
             /\ liveTimers \ {s} \subseteq liveTimers']_vars

\* C33: a tick writes a heartbeat only to the stream of the binding that is
\* registered under its session id at that moment, never to a stream that
\* was replaced under the id or that has closed.
C33_WritesOnlyToCurrentStream ==
    [][\A t \in Streams, writeOk \in BOOLEAN :
          (Tick(t, writeOk) /\ WritesTo(t))
          => /\ transports[streams[t].sid] = t
             /\ ~streams[t].closed]_vars

\* ------------------------------------------------------------------------
\* A GET whose connect is rejected
\* ------------------------------------------------------------------------

\* C34: when server.connect rejects the stream of a GET, the handler starts
\* no keep-alive timer for it, and once the close event of that stream has
\* fired no binding for its session id remains registered.
C34_RejectedGetLeavesNothing ==
    /\ [](\A s \in Streams :
             streams[s].pc = "failed"
             => /\ s \notin liveTimers
                /\ \A x \in AllIds : keepAliveTimers[x] # s)
    /\ [][\A s \in Streams :
             ConnectFail(s)
             => /\ liveTimers' = liveTimers
                /\ keepAliveTimers' = keepAliveTimers
                /\ streams[s].closed => transports'[streams[s].sid] # s]_vars
    /\ [][\A s \in Streams :
             (Close(s) /\ streams[s].pc = "failed")
             => /\ transports'[streams[s].sid] = NoStream
                /\ keepAliveTimers'[streams[s].sid] = NoTimer]_vars

\* a rejected stream that is still open: its binding is registered, no timer
\* runs for its session id
C34_Witness ==
    \E s \in Streams :
        /\ streams[s].pc = "failed"
        /\ ~streams[s].closed
        /\ transports[streams[s].sid] = s
        /\ keepAliveTimers[streams[s].sid] = NoTimer
        /\ LiveTimersOf(streams[s].sid) = {}
====
